---- MODULE Spec2Model ----
(***************************************************************************)
(* Model of acestep/gradio_ui/interfaces/__init__.py:                      *)
(* create_gradio_interface builds the page, wires the handlers, decides    *)
(* whether to schedule the base-model auto-initialization chain            *)
(* (demo.load(...).then(...)) and returns the page.  After the page is     *)
(* returned, browser sessions load it and the registered chain runs.       *)
(***************************************************************************)
EXTENDS Integers, Sequences, FiniteSets, TLC

\* ------------------------------------------------------------------ bounds
MaxLoads == 2          \* page loads (browser sessions) explored
MaxMissing == 1        \* keys the generation section descriptor may lack

\* ------------------------------------------------------- python strings
\* The characters of the string values that occur as config_path values or
\* model identifiers; `x in s` on Python strings is a substring test and is
\* computed on these character sequences.
Chars ==
  [ s \in {"", "acestep-v15-base", "acestep-v15-turbo", "acestep-v15-bas",
           "path/to/acestep-v15-base/cfg.json"} |->
      CASE s = "" -> << >>
        [] s = "acestep-v15-base" ->
             <<"a","c","e","s","t","e","p","-","v","1","5","-","b","a","s","e">>
        [] s = "acestep-v15-turbo" ->
             <<"a","c","e","s","t","e","p","-","v","1","5","-","t","u","r","b","o">>
        [] s = "acestep-v15-bas" ->
             <<"a","c","e","s","t","e","p","-","v","1","5","-","b","a","s">>
        [] s = "path/to/acestep-v15-base/cfg.json" ->
             <<"p","a","t","h","/","t","o","/",
               "a","c","e","s","t","e","p","-","v","1","5","-","b","a","s","e",
               "/","c","f","g",".","j","s","o","n">> ]

\* str.__contains__: needle occurs as a contiguous run of haystack
StrContains(haystack, needle) ==
  LET h == Chars[haystack]
      n == Chars[needle]
  IN \E i \in 0..(Len(h) - Len(n)) : SubSeq(h, i + 1, i + Len(n)) = n

\* the literal tested on line 101
BaseModel == "acestep-v15-base"

\* Python truthiness of the values a pre_initialized entry is given here
Truthy(v) == v \notin {"False", "None", "0", ""}

\* dict.get(key, default)
DictGet(d, k, default) == IF k \in DOMAIN d THEN d[k] ELSE default

\* ------------------------------------------------------------- inputs
PreInitValues == {"True", "False", "1", "None"}
ConfigPathValues == DOMAIN Chars
ModelNames == {"acestep-v15-base", "acestep-v15-turbo"}

\* the dictionaries passed as init_params: any subset of the two keys the
\* function reads, plus possibly a key it does not read
DictKeys == {"pre_initialized", "config_path", "device"}

WellFormedDict(d) ==
  /\ "pre_initialized" \in DOMAIN d => d["pre_initialized"] \in PreInitValues
  /\ "config_path" \in DOMAIN d => d["config_path"] \in ConfigPathValues
  /\ "device" \in DOMAIN d => d["device"] = "None"

Dicts ==
  { d \in UNION { [ks -> PreInitValues \cup ConfigPathValues] : ks \in SUBSET DictKeys } :
      WellFormedDict(d) }

\* init_params=None, or a dict
InitParamsValues ==
  { [none |-> TRUE, d |-> << >>] } \cup { [none |-> FALSE, d |-> d] : d \in Dicts }

\* ---------------------------------------------- the generation section
\* keys of generation_section looked up by this function, in lookup order
LoadOutputs == << "init_status" >>

\* variant of the inputs list with device and config_path exchanged
ThenInputsSwapped ==
  << "checkpoint_dropdown", "device", "config_path", "init_llm_checkbox",
     "lm_model_path", "backend_dropdown", "use_flash_attention_checkbox",
     "offload_to_cpu_checkbox", "offload_dit_to_cpu_checkbox",
     "compile_model_checkbox", "quantization_checkbox" >>

ThenInputs ==
  << "checkpoint_dropdown", "config_path", "device", "init_llm_checkbox",
     "lm_model_path", "backend_dropdown", "use_flash_attention_checkbox",
     "offload_to_cpu_checkbox", "offload_dit_to_cpu_checkbox",
     "compile_model_checkbox", "quantization_checkbox" >>

\* variant of the model-type settings without task_type
ModelTypeSettingsSix ==
  << "inference_steps", "guidance_scale", "use_adg", "shift",
     "cfg_interval_start", "cfg_interval_end" >>

\* the model-type settings among the outputs of the second step
ModelTypeSettings ==
  << "inference_steps", "guidance_scale", "use_adg", "shift",
     "cfg_interval_start", "cfg_interval_end", "task_type" >>

ThenOutputs ==
  << "init_status", "generate_btn", "service_config_accordion" >>
    \o ModelTypeSettings

Range(s) == { s[i] : i \in 1..Len(s) }

ReferencedKeys == Range(LoadOutputs) \cup Range(ThenInputs) \cup Range(ThenOutputs)

\* the sets of at most n referenced keys
RECURSIVE KeySets(_)
KeySets(n) ==
  IF n = 0 THEN { {} }
  ELSE LET S == KeySets(n - 1) IN S \cup { x \cup {k} : x \in S, k \in ReferencedKeys }

VARIABLES
  init_params,        \* argument of create_gradio_interface
  available,          \* what dit_handler.get_available_acestep_v15_models() returns
  pc,                 \* position in create_gradio_interface
  log,                \* collaborators called so far, in call order
  section,            \* keys of the generation_section descriptor
  widgets,            \* initial value of each widget of the generation section
  models_queried,     \* calls of get_available_acestep_v15_models
  decision,           \* outcome of the test on line 101 ("none" before it)
  events,             \* event chain registered on demo
  fault,              \* exception leaving create_gradio_interface
  sessions            \* page loads served by the returned page

vars == << init_params, available, pc, log, section, widgets, models_queried,
           decision, events, fault, sessions >>


\* ------------------------------------------------- create_gradio_interface
\* `if init_params` / `init_params is not None`: None and {} are falsy
IsNone(p) == p.none
DictTruthy(p) == ~p.none /\ DOMAIN p.d # {}

\* variant of line 96 that skips only for the value True (`is True`)
service_pre_initializedIsTrue(p) ==
  ~IsNone(p) /\ DictGet(p.d, "pre_initialized", "False") = "True"

\* line 96
service_pre_initialized(p) ==
  ~IsNone(p) /\ Truthy(DictGet(p.d, "pre_initialized", "False"))

\* variant of line 100 that falls back to the base model when init_params
\* is None or empty
config_path_valueDefaultBase(p) ==
  IF DictTruthy(p) THEN DictGet(p.d, "config_path", "") ELSE BaseModel

\* variant of line 100 that reads the entry under another key
config_path_valueWrongKey(p) ==
  IF DictTruthy(p) THEN DictGet(p.d, "config", "") ELSE ""

\* line 100
config_path_value(p) ==
  IF DictTruthy(p) THEN DictGet(p.d, "config_path", "") ELSE ""

\* variant of line 101 with `or` for `and`
ShouldAutoInitOr(models, cfg) ==
  BaseModel \in models \/ StrContains(cfg, BaseModel)

\* line 101
ShouldAutoInit(models, cfg) ==
  BaseModel \in models /\ StrContains(cfg, BaseModel)

\* variant of lines 31-93 that wires the training handlers first
SuccessorSwapped(step) ==
  CASE step = "get_i18n" -> "gr.Blocks"
    [] step = "gr.Blocks" -> "gr.HTML"
    [] step = "gr.HTML" -> "create_dataset_section"
    [] step = "create_dataset_section" -> "create_generation_section"
    [] step = "create_generation_section" -> "create_results_section"
    [] step = "create_results_section" -> "create_training_section"
    [] step = "create_training_section" -> "setup_training_event_handlers"
    [] step = "setup_training_event_handlers" -> "setup_event_handlers"
    [] step = "setup_event_handlers" -> "pre_init_check"

\* The straight-line part of the function: the statement executed after
\* each statement of lines 31-93.
Successor(step) ==
  CASE step = "get_i18n" -> "gr.Blocks"
    [] step = "gr.Blocks" -> "gr.HTML"
    [] step = "gr.HTML" -> "create_dataset_section"
    [] step = "create_dataset_section" -> "create_generation_section"
    [] step = "create_generation_section" -> "create_results_section"
    [] step = "create_results_section" -> "create_training_section"
    [] step = "create_training_section" -> "setup_event_handlers"
    [] step = "setup_event_handlers" -> "setup_training_event_handlers"
    [] step = "setup_training_event_handlers" -> "pre_init_check"

\* a collaborator is called: recorded, and control moves on
Call(step) ==
  /\ pc = step
  /\ log' = Append(log, step)
  /\ pc' = Successor(step)

\* variant of the lookups that never faults (section.get(key))
FirstMissingNever(keys, sec) == ""

\* first key of `keys` (in order) that descriptor `sec` lacks, "" if none:
\* generation_section[key] raises KeyError there
FirstMissing(keys, sec) ==
  IF \A i \in 1..Len(keys) : keys[i] \in sec THEN ""
  ELSE keys[CHOOSE i \in 1..Len(keys) :
              /\ keys[i] \notin sec
              /\ \A j \in 1..(i - 1) : keys[j] \in sec]

\* the fn argument of .then (line 109) is a lambda: evaluating the
\* argument list builds a closure and does not call init_service_wrapper
\* (ThenFnEager: the variant that passes the result of a call)
ThenFnEager == [deferred |-> FALSE, calls |-> "init_service_wrapper"]
ThenFn == [deferred |-> TRUE, calls |-> "init_service_wrapper"]

\* the fn argument of demo.load (line 105)
LoadFn == [deferred |-> TRUE, calls |-> "set_status"]

\* the event .then(...) registers: it runs after the event it is chained to
\* (ThenEventUnchained: the variant registered as a second load event)
ThenEventUnchained(prev) ==
  [fn |-> ThenFn.calls, after |-> 0, inputs |-> ThenInputs, outputs |-> ThenOutputs]
ThenEvent(prev) ==
  [fn |-> ThenFn.calls, after |-> prev, inputs |-> ThenInputs, outputs |-> ThenOutputs]

\* the event demo.load(...) registers: it runs when the page loads
LoadEvent ==
  [fn |-> LoadFn.calls, after |-> 0, inputs |-> << >>, outputs |-> LoadOutputs]


\* ------------------------------------------------------- page-load steps
\* line 105: the value the first step gives its output
InitializingText == "Initializing base model..."

\* init_service_wrapper either returns its ten values (reporting success or
\* failure in the status text) or raises
WrapperOutcomes == {"ok", "error_status", "raise"}

\* the ten values init_service_wrapper returns
WrapperResult(outcome) ==
  << "status:" \o outcome,
     IF outcome = "ok" THEN "interactive=True" ELSE "interactive=False",
     IF outcome = "ok" THEN "open=False" ELSE "open=True" >>
    \o [i \in 1..Len(ModelTypeSettings) |-> "update:" \o ModelTypeSettings[i]]

\* line 109: lambda *args: init_service_wrapper(dit_handler, llm_handler, *args)
WrapperCall(args) == << "dit_handler", "llm_handler" >> \o args

\* the current values of the components bound as inputs, in binding order
InputValues(ev, values) == [i \in 1..Len(ev.inputs) |-> values[ev.inputs[i]]]

\* the returned values are applied to the components bound as outputs
Scatter(ev, result, values) ==
  [k \in DOMAIN values |->
     IF \E i \in 1..Len(ev.outputs) : ev.outputs[i] = k
       THEN result[CHOOSE i \in 1..Len(ev.outputs) : ev.outputs[i] = k]
       ELSE values[k]]

\* an event may start once the page is loaded, or once the event it is
\* chained to has finished
Triggered(ev, ses) == ev.after = 0 \/ ev.after \in ses.finished

\* ------------------------------------------------------------ initial state
NoSession ==
  [open |-> FALSE, started |-> {}, finished |-> {}, values |-> << >>,
   call |-> << >>, trace |-> << >>]

Init ==
  /\ init_params \in InitParamsValues
  /\ available \in SUBSET ModelNames
  /\ pc = "get_i18n"
  /\ log = << >>
  /\ section = {}
  /\ widgets = << >>
  /\ models_queried = 0
  /\ decision = "none"
  /\ events = << >>
  /\ fault = ""
  /\ sessions = [s \in 1..MaxLoads |-> NoSession]

\* ------------------------------------------------------------------ actions
\* line 31
GetI18n ==
  /\ Call("get_i18n")
  /\ UNCHANGED << init_params, available, section, widgets, models_queried,
                  decision, events, fault, sessions >>

\* lines 33-67
EnterBlocks ==
  /\ Call("gr.Blocks")
  /\ UNCHANGED << init_params, available, section, widgets, models_queried,
                  decision, events, fault, sessions >>

\* lines 69-74
Header ==
  /\ Call("gr.HTML")
  /\ UNCHANGED << init_params, available, section, widgets, models_queried,
                  decision, events, fault, sessions >>

\* line 77
CreateDatasetSection ==
  /\ Call("create_dataset_section")
  /\ UNCHANGED << init_params, available, section, widgets, models_queried,
                  decision, events, fault, sessions >>

\* line 80: the builder returns a descriptor; which keys it holds and what
\* the config_path widget shows is the builder's choice
CreateGenerationSection ==
  /\ Call("create_generation_section")
  /\ \E missing \in KeySets(MaxMissing), shown \in ModelNames :
       /\ section' = ReferencedKeys \ missing
       /\ widgets' = [k \in ReferencedKeys \ missing |->
                        IF k = "config_path" THEN shown ELSE "<" \o k \o ">"]
  /\ UNCHANGED << init_params, available, models_queried, decision, events,
                  fault, sessions >>

\* line 83
CreateResultsSection ==
  /\ Call("create_results_section")
  /\ UNCHANGED << init_params, available, section, widgets, models_queried,
                  decision, events, fault, sessions >>

\* line 87
CreateTrainingSection ==
  /\ Call("create_training_section")
  /\ UNCHANGED << init_params, available, section, widgets, models_queried,
                  decision, events, fault, sessions >>

\* line 90
SetupEventHandlers ==
  /\ Call("setup_event_handlers")
  /\ UNCHANGED << init_params, available, section, widgets, models_queried,
                  decision, events, fault, sessions >>

\* line 93
SetupTrainingEventHandlers ==
  /\ Call("setup_training_event_handlers")
  /\ UNCHANGED << init_params, available, section, widgets, models_queried,
                  decision, events, fault, sessions >>

\* lines 96-97: a pre-initialized service skips the whole block
PreInitCheck ==
  /\ pc = "pre_init_check"
  /\ log' = Append(log, "pre_init_check")
  /\ IF service_pre_initialized(init_params)
       THEN pc' = "return" /\ decision' = "skipped"
       ELSE pc' = "query_models" /\ decision' = decision
  /\ UNCHANGED << init_params, available, section, widgets, models_queried,
                  events, fault, sessions >>

\* lines 99-101
Decide ==
  /\ pc = "query_models"
  /\ models_queried' = models_queried + 1
  /\ log' = Append(log, "get_available_acestep_v15_models")
  /\ IF ShouldAutoInit(available, config_path_value(init_params))
       THEN pc' = "demo.load" /\ decision' = "schedule"
       ELSE pc' = "return" /\ decision' = "no"
  /\ UNCHANGED << init_params, available, section, widgets, events, fault,
                  sessions >>

\* lines 103-107: the outputs list is built (a lookup), then the load event
\* is registered
WireLoad ==
  /\ pc = "demo.load"
  /\ log' = Append(log, "demo.load")
  /\ LET k == FirstMissing(LoadOutputs, section) IN
       IF k # ""
         THEN pc' = "raised" /\ fault' = "KeyError:" \o k /\ events' = events
         ELSE pc' = ".then" /\ fault' = fault /\ events' = Append(events, LoadEvent)
  /\ UNCHANGED << init_params, available, section, widgets, models_queried,
                  decision, sessions >>

\* lines 107-136: the argument lists are built (fn, inputs, outputs: the
\* lookups in that order), then the event is chained to the load event
WireThen ==
  /\ pc = ".then"
  /\ log' = Append(log, ".then")
  /\ LET k == FirstMissing(ThenInputs \o ThenOutputs, section) IN
       \E outcome \in WrapperOutcomes :
         IF ~ThenFn.deferred /\ outcome = "raise"
           THEN pc' = "raised" /\ fault' = "init_service_wrapper" /\ events' = events
           ELSE IF k # ""
             THEN pc' = "raised" /\ fault' = "KeyError:" \o k /\ events' = events
             ELSE /\ pc' = "return"
                  /\ fault' = fault
                  /\ events' = Append(events, ThenEvent(Len(events)))
  /\ UNCHANGED << init_params, available, section, widgets, models_queried,
                  decision, sessions >>

\* line 138
ReturnDemo ==
  /\ pc = "return"
  /\ pc' = "returned"
  /\ log' = Append(log, "return")
  /\ UNCHANGED << init_params, available, section, widgets, models_queried,
                  decision, events, fault, sessions >>


\* a browser opens the returned page
PageLoad(s) ==
  /\ pc = "returned"
  /\ ~sessions[s].open
  /\ \A r \in 1..(s - 1) : sessions[r].open
  /\ sessions' = [sessions EXCEPT ![s] =
                    [@ EXCEPT !.open = TRUE, !.values = widgets]]
  /\ UNCHANGED << init_params, available, pc, log, section, widgets,
                  models_queried, decision, events, fault >>

\* the runtime starts a registered event of a loaded page: its inputs are
\* read and its function is called
StartEvent(s, e) ==
  /\ sessions[s].open
  /\ e \notin sessions[s].started
  /\ Triggered(events[e], sessions[s])
  /\ sessions' = [sessions EXCEPT ![s] =
       [@ EXCEPT !.started = @ \cup {e},
                 !.trace = Append(@, << "start", e >>),
                 !.call = IF events[e].fn = "init_service_wrapper"
                            THEN WrapperCall(InputValues(events[e], sessions[s].values))
                            ELSE @]]
  /\ UNCHANGED << init_params, available, pc, log, section, widgets,
                  models_queried, decision, events, fault >>

\* the first step returns gr.update(value=...); it is applied to its output
FinishStatus(s, e) ==
  /\ e \in sessions[s].started \ sessions[s].finished
  /\ events[e].fn = "set_status"
  /\ sessions' = [sessions EXCEPT ![s] =
       [@ EXCEPT !.finished = @ \cup {e},
                 !.trace = Append(@, << "applied", e >>),
                 !.values = Scatter(events[e], << InitializingText >>, @)]]
  /\ UNCHANGED << init_params, available, pc, log, section, widgets,
                  models_queried, decision, events, fault >>

\* init_service_wrapper returns and its values are applied, or it raises
\* and the step ends with no output applied
FinishInit(s, e, outcome) ==
  /\ e \in sessions[s].started \ sessions[s].finished
  /\ events[e].fn = "init_service_wrapper"
  /\ sessions' = [sessions EXCEPT ![s] =
       [@ EXCEPT !.finished = @ \cup {e},
                 !.trace = Append(@, << IF outcome = "raise" THEN "raised" ELSE "applied", e >>),
                 !.values = IF outcome = "raise" THEN @
                            ELSE Scatter(events[e], WrapperResult(outcome), @)]]
  /\ UNCHANGED << init_params, available, pc, log, section, widgets,
                  models_queried, decision, events, fault >>

Build ==
  \/ GetI18n
  \/ EnterBlocks
  \/ Header
  \/ CreateDatasetSection
  \/ CreateGenerationSection
  \/ CreateResultsSection
  \/ CreateTrainingSection
  \/ SetupEventHandlers
  \/ SetupTrainingEventHandlers
  \/ PreInitCheck
  \/ Decide
  \/ WireLoad
  \/ WireThen
  \/ ReturnDemo

Serve ==
  \/ \E s \in 1..MaxLoads : PageLoad(s)
  \/ \E s \in 1..MaxLoads, e \in 1..Len(events) : StartEvent(s, e)
  \/ \E s \in 1..MaxLoads, e \in 1..Len(events) : FinishStatus(s, e)
  \/ \E s \in 1..MaxLoads, e \in 1..Len(events), o \in WrapperOutcomes : FinishInit(s, e, o)

Next == Build \/ Serve

Spec == Init /\ [][Next]_vars


\* ------------------------------------------------------------------ claims
Terminal == pc \in {"returned", "raised"}
Decided == decision # "none"

\* what the caller passed, read off init_params directly
PreInitializedGiven ==
  /\ ~init_params.none
  /\ "pre_initialized" \in DOMAIN init_params.d
  /\ init_params.d["pre_initialized"] \in {"True", "1"}

ConfiguredPath ==
  IF ~init_params.none /\ "config_path" \in DOMAIN init_params.d
    THEN init_params.d["config_path"] ELSE ""

ContainsBase(path) == path \in {"acestep-v15-base", "path/to/acestep-v15-base/cfg.json"}

ChainScheduled == Len(events) = 2
SectionComplete == ReferencedKeys \subseteq section

IsPrefix(a, b) == Len(a) <= Len(b) /\ SubSeq(b, 1, Len(a)) = a

\* position of entry x in sequence tr, 0 when absent
Pos(tr, x) ==
  IF \E i \in 1..Len(tr) : tr[i] = x
    THEN CHOOSE i \in 1..Len(tr) : tr[i] = x /\ \A j \in 1..(i - 1) : tr[j] # x
    ELSE 0

Count(tr, x) == Cardinality({ i \in 1..Len(tr) : tr[i] = x })

\* C1: the chain is scheduled if and only if pre_initialized is not truthy,
\* "acestep-v15-base" is among the available models and is a substring of
\* the configured config_path ("" when unset); with no available model the
\* chain is skipped and the page is returned without error.
C1_ScheduleIff ==
  LET cond == /\ ~PreInitializedGiven
              /\ "acestep-v15-base" \in available
              /\ ContainsBase(ConfiguredPath)
  IN /\ Terminal => ((decision = "schedule") <=> cond)
     /\ (pc = "returned" /\ SectionComplete) => (ChainScheduled <=> cond)
     /\ (pc = "returned" /\ ~cond) => events = << >>
     /\ (Terminal /\ available = {}) => (pc = "returned" /\ events = << >> /\ fault = "")

C1_Witness ==
  /\ pc = "returned"
  /\ ChainScheduled
  /\ ConfiguredPath = "path/to/acestep-v15-base/cfg.json"
  /\ "pre_initialized" \in DOMAIN init_params.d
  /\ init_params.d["pre_initialized"] = "False"

\* C2: with init_params=None the chain is never scheduled, whatever models
\* the handler reports.
C2_NoneNeverSchedules ==
  init_params.none => (decision # "schedule" /\ events = << >> /\ pc # "demo.load")

C2_Witness ==
  /\ init_params.none
  /\ pc = "returned"
  /\ "acestep-v15-base" \in available
  /\ models_queried = 1

\* C3: with a truthy pre_initialized the step is skipped entirely: no chain
\* is scheduled and get_available_acestep_v15_models is not called.
C3_PreInitializedSkips ==
  PreInitializedGiven =>
    /\ events = << >>
    /\ models_queried = 0
    /\ decision \in {"none", "skipped"}
    /\ pc \notin {"query_models", "demo.load", ".then", "raised"}

C3_Witness ==
  /\ PreInitializedGiven
  /\ init_params.d["pre_initialized"] = "1"
  /\ pc = "returned"
  /\ "acestep-v15-base" \in available
  /\ ContainsBase(ConfiguredPath)

\* C4: in every page load of a page with the chain, init_service_wrapper
\* starts only after the status step has finished and "Initializing base
\* model..." has been applied to the status element.
C4_StepsInSequence ==
  \A s \in 1..MaxLoads :
    LET ses == sessions[s] IN
      \A e \in ses.started :
        events[e].fn = "init_service_wrapper" =>
          \E f \in ses.finished :
            /\ events[f].fn = "set_status"
            /\ Pos(ses.trace, << "start", f >>) > 0
            /\ Pos(ses.trace, << "start", f >>) < Pos(ses.trace, << "applied", f >>)
            /\ Pos(ses.trace, << "applied", f >>) < Pos(ses.trace, << "start", e >>)
            /\ (e \notin ses.finished =>
                  ses.values["init_status"] = "Initializing base model...")

C4_Witness ==
  \E s \in 1..MaxLoads :
    /\ sessions[s].trace = << << "start", 1 >>, << "applied", 1 >>, << "start", 2 >> >>
    /\ sessions[s].values["init_status"] = "Initializing base model..."

\* the inputs of the second step as documented
C5_DocumentedInputs ==
  << "checkpoint_dropdown", "config_path", "device", "init_llm_checkbox",
     "lm_model_path", "backend_dropdown", "use_flash_attention_checkbox",
     "offload_to_cpu_checkbox", "offload_dit_to_cpu_checkbox",
     "compile_model_checkbox", "quantization_checkbox" >>

\* C5: the second step binds the eleven documented inputs in order and ten
\* outputs starting with init_status, generate_btn, service_config_accordion;
\* init_service_wrapper receives dit_handler, llm_handler and then the
\* eleven input values in that order.
C5_Bindings ==
  /\ ChainScheduled =>
       /\ Len(events[2].inputs) = 11
       /\ events[2].inputs = C5_DocumentedInputs
       /\ Len(events[2].outputs) = 10
       /\ SubSeq(events[2].outputs, 1, 3) =
            << "init_status", "generate_btn", "service_config_accordion" >>
  /\ \A s \in 1..MaxLoads :
       sessions[s].call # << >> =>
         /\ Len(sessions[s].call) = 13
         /\ sessions[s].call[1] = "dit_handler"
         /\ sessions[s].call[2] = "llm_handler"
         /\ \A i \in 1..11 : sessions[s].call[i + 2] = widgets[C5_DocumentedInputs[i]]

C5_Witness ==
  \E s \in 1..MaxLoads :
    /\ Len(sessions[s].call) = 13
    /\ sessions[s].call[4] = "acestep-v15-turbo"
    /\ 2 \in sessions[s].finished

\* C6 as stated: the outputs of the second step are the status text, the
\* generate action, the settings panel and exactly six parameter widgets.
C6_Original ==
  ChainScheduled =>
    /\ SubSeq(events[2].outputs, 1, 3) =
         << "init_status", "generate_btn", "service_config_accordion" >>
    /\ Len(events[2].outputs) - 3 = 6

\* C6 amended: the outputs of the second step are the status text, the
\* generate action, the settings panel and exactly seven model-type
\* parameter widgets (inference_steps, guidance_scale, use_adg, shift,
\* cfg_interval_start, cfg_interval_end, task_type).
C6_SevenSettings ==
  ChainScheduled =>
    /\ events[2].outputs =
         << "init_status", "generate_btn", "service_config_accordion",
            "inference_steps", "guidance_scale", "use_adg", "shift",
            "cfg_interval_start", "cfg_interval_end", "task_type" >>
    /\ Cardinality(Range(events[2].outputs)
                     \ {"init_status", "generate_btn", "service_config_accordion"}) = 7

C6_Witness ==
  \E s \in 1..MaxLoads :
    /\ ChainScheduled
    /\ << "applied", 2 >> \in Range(sessions[s].trace)
    /\ sessions[s].values["task_type"] = "update:task_type"

\* C7: a failure of init_service_wrapper never makes page construction
\* fail: the routine is only called at page-load time, after the page was
\* returned, and construction of a page with the chain returns the page.
C7_FailureStaysAtLoadTime ==
  /\ fault # "init_service_wrapper"
  /\ \A s \in 1..MaxLoads : sessions[s].call # << >> => pc = "returned"
  /\ (Terminal /\ decision = "schedule" /\ SectionComplete) => pc = "returned"
  /\ \A s \in 1..MaxLoads :
       << "raised", 2 >> \in Range(sessions[s].trace) =>
         /\ pc = "returned"
         /\ fault = ""
         /\ sessions[s].values["init_status"] = "Initializing base model..."

C7_Witness ==
  \E s \in 1..MaxLoads :
    /\ << "raised", 2 >> \in Range(sessions[s].trace)
    /\ pc = "returned"

\* C8 as stated: the substring test is performed on the config_path field
\* value of the generation section.
C8_Original ==
  (Decided /\ decision # "skipped" /\ "config_path" \in section) =>
    ((decision = "schedule") <=>
       ("acestep-v15-base" \in available /\ ContainsBase(widgets["config_path"])))

\* C8 amended: the substring test is performed on the config_path entry of
\* init_params ("" when init_params is None, empty or lacks the key), not
\* on the value of the generation section's config_path widget.
C8_TestsInitParamsPath ==
  /\ decision = "schedule" => ContainsBase(ConfiguredPath)
  /\ (decision = "no" /\ "acestep-v15-base" \in available) => ~ContainsBase(ConfiguredPath)

C8_Witness ==
  /\ decision = "schedule"
  /\ pc = "returned"
  /\ widgets["config_path"] = "acestep-v15-turbo"

\* the steps of a call as documented
C9_Steps ==
  << "get_i18n", "gr.Blocks", "create_dataset_section",
     "create_generation_section", "create_results_section",
     "create_training_section", "setup_event_handlers",
     "setup_training_event_handlers", "pre_init_check" >>

\* C9: in every call the steps occur once each and in this order: locale
\* selection, page construction, the section builders dataset, generation,
\* results, training, setup_event_handlers, setup_training_event_handlers,
\* and only then the auto-initialization decision and the registration of
\* the chain.
C9_Order ==
  LET InClaim(x) == x \in Range(C9_Steps)
      done == SelectSeq(log, InClaim)
  IN /\ IsPrefix(done, C9_Steps)
     /\ \A i \in 1..Len(C9_Steps) : Count(log, C9_Steps[i]) <= 1
     /\ (Decided \/ models_queried > 0 \/ events # << >> \/ Terminal) => done = C9_Steps
     /\ \A x \in {"get_available_acestep_v15_models", "demo.load", ".then"} :
          Pos(log, x) > 0 => Pos(log, x) > Pos(log, "pre_init_check")

C9_Witness ==
  /\ pc = "returned"
  /\ ChainScheduled
  /\ Pos(log, "setup_training_event_handlers") < Pos(log, "demo.load")

C10_LookupOrder ==
  << "init_status", "checkpoint_dropdown", "config_path", "device",
     "init_llm_checkbox", "lm_model_path", "backend_dropdown",
     "use_flash_attention_checkbox", "offload_to_cpu_checkbox",
     "offload_dit_to_cpu_checkbox", "compile_model_checkbox",
     "quantization_checkbox", "init_status", "generate_btn",
     "service_config_accordion", "inference_steps", "guidance_scale",
     "use_adg", "shift", "cfg_interval_start", "cfg_interval_end", "task_type" >>

====
